---- MODULE Spec2Model ----
(***************************************************************************)
(* smartMart browser client: the inline sales editor (SalesEditor with the *)
(* useSales hook), the dashboard data hook (useDashboardData) and the      *)
(* ErrorBoundary component.                                                *)
(*                                                                         *)
(* JavaScript runs handlers to completion on one thread; an async function *)
(* is suspended only at an await.  Every action below is therefore one     *)
(* run-to-completion step: an event handler up to its first await, or the  *)
(* continuation that runs when a network response arrives.                 *)
(***************************************************************************)
EXTENDS Integers, FiniteSets, Sequences, Bags, TLC

\* ------------------------------------------------------------------ bounds
NumSales == 2      \* sale records held by the backend
MaxSaves == 3      \* PUT requests issued in one behaviour
MaxEdits == 2      \* field edits typed in one behaviour
MaxLoads == 2      \* dashboard fetchData invocations in one behaviour
NumBoundaries == 2     \* ErrorBoundary instances mounted in the tree
MaxRetryRequests == 5  \* calls of handleRetry in one behaviour
MaxRemounts == 1       \* remounts of a boundary by its parent
MaxRawMonths == 2      \* months that a stats response can carry
MaxCalls == 2          \* apiService calls made in one behaviour
MaxTicks == 3          \* half-timeouts of waiting explored per call

\* ------------------------------------------------------------- value space
Ids == 1..NumSales

\* useState<number | null>(null): the id 0 is never a sale id (ids come from a
\* sequence that starts at 1) and stands for null.
NoId == 0

Null == "null"

\* The editable columns.  product_id, quantity and total_price go through the
\* same number input / handleChange / spread code; quantity stands for them.
Fields == {"quantity", "date"}

\* A date string is its first ten characters (YYYY-MM-DD) and what follows.
DateStr(d, rest) == [day |-> d, rest |-> rest]

\* String.prototype.slice(0, 10) on a date string.
Slice10(s) == [day |-> s.day, rest |-> ""]

\* Quantities are counted in tenths, so that 25 is the typed value 2.5.
\* What the user can put in an input: Number(e.target.value) of a number
\* input, e.target.value of a date input (always YYYY-MM-DD).
Typed(f) ==
  IF f = "quantity" THEN {20, 25}
  ELSE {DateStr(1, "")}

\* The rows the backend starts with (quantity INTEGER, date DATE).
InitialSale(id) == [quantity |-> 10 * id, date |-> DateStr(0, "")]

\* The backend stores quantity in an INTEGER column (a fractional value is
\* rounded to the nearest integer) and date in a DATE column (no time part):
\* the representation it returns is the stored one.
ServerNormalize(f, v) ==
  IF f = "quantity" THEN ((v + 5) \div 10) * 10
  ELSE Slice10(v)

EmptyPatch == [f \in {} |-> 0]

NoRows == [i \in {} |-> 0]

\* Object spread {...a, ...b}.
Spread(a, b) ==
  [f \in (DOMAIN a) \cup (DOMAIN b) |-> IF f \in DOMAIN b THEN b[f] ELSE a[f]]

VARIABLES
  \* ---- backend
  server,       \* sale id -> stored row
  \* ---- useSales
  sales,        \* sale id -> row, as fetched
  loading,
  error,
  \* ---- SalesEditor
  editRows,     \* the EditBuffer: sale id -> partial row
  savingId,
  saveError,
  localSales,   \* the cached records the table renders
  puts,         \* bag of the PUT /api/sales/{id} requests in flight
  nSaves,
  nEdits,
  \* ---- history (not program state)
  confirmed,    \* sale id -> the last representation the backend returned
  patchSince,   \* sale id -> fields edited since the last confirmed save
  rowFailed,    \* sale ids whose latest settled save failed, until saved again
  last          \* the handler that ran last

editorVars == <<server, sales, loading, error, editRows, savingId, saveError,
                localSales, puts, nSaves, nEdits, confirmed, patchSince,
                rowFailed, last>>

VARIABLES
  \* ---- the component that calls useDashboardData(year, categoryId)
  year,
  categoryId,
  \* ---- useDashboardData
  products,
  categories,
  salesStats,
  availableYears,
  dashLoading,
  dashError,
  loads,        \* fetchData invocations suspended at their await
  nLoads,
  \* ---- history (not program state)
  outcome,      \* invocation -> "none", "pending", "ok" or "error"
  applied,      \* invocation -> the snapshot its try block set
  shownFor      \* the <<year, categoryId>> of the invocation whose data is held

dashVars == <<year, categoryId, products, categories, salesStats,
              availableYears, dashLoading, dashError, loads, nLoads, outcome,
              applied, shownFor>>

VARIABLES
  \* ---- ErrorBoundary, one entry per mounted instance
  state,        \* instance -> this.state
  nRequests,    \* calls of handleRetry so far, all instances
  nRemounts,    \* remounts by the parent so far, all instances
  \* ---- history (not program state), per instance since its construction
  hist          \* instance -> retries granted, retry requests, child mounts,
                \*             result of the last retry request

boundaryVars == <<state, nRequests, nRemounts, hist>>

VARIABLES
  \* ---- the stats response and the SalesStats derived from it
  salesStatsData,  \* <<>> or <<body>>: the last body of GET /sales/stats
  formattedStats,  \* the SalesStats object the views read
  \* ---- apiService
  gateway          \* call slot -> the call made through it

aggVars == <<salesStatsData, formattedStats>>

gatewayVars == <<gateway>>

serviceVars == <<aggVars, gatewayVars>>

vars == <<editorVars, dashVars, boundaryVars, serviceVars>>

LastOp(op, id) == [op |-> op, id |-> id]

\* ------------------------------------------------------------ SalesEditor

\* A row of the table is rendered once the list is loaded without error.
Rendered(id) == ~loading /\ error = Null /\ id \in DOMAIN localSales

\* const edit = editRows[sale.id] || {}
EditOf(id) == IF id \in DOMAIN editRows THEN editRows[id] ELSE EmptyPatch

\* value={edit.field ?? sale.field}; the date input shows (...).slice(0, 10).
DisplayedIn(rows, cache, id, f) ==
  LET edit == IF id \in DOMAIN rows THEN rows[id] ELSE EmptyPatch
      v == IF f \in DOMAIN edit THEN edit[f] ELSE cache[id][f]
  IN IF f = "date" THEN Slice10(v) ELSE v

Displayed(id, f) == DisplayedIn(editRows, localSales, id, f)

\* disabled={savingId === sale.id}
SaveDisabled(id) == savingId = id

\* setEditRows(prev => ({...prev, [id]: {...prev[id], [field]: value}}))
SetEdit(rows, id, f, v) ==
  LET old == IF id \in DOMAIN rows THEN rows[id] ELSE EmptyPatch
  IN [i \in (DOMAIN rows) \cup {id} |->
        IF i = id THEN Spread(old, [g \in {f} |-> v]) ELSE rows[i]]

\* Variant: the body is the whole row with the edits spread over it, as the
\* earlier handleEdit sent it.
SaveBodyWholeRow(id) == Spread(localSales[id], EditOf(id))

\* const updates = editRows[id]; body: JSON.stringify(updates).  An absent
\* entry (undefined) is sent as no fields; an entry is never empty.
SaveBody(id) == EditOf(id)

\* Variant: the map without its sale.id === id test.
ApplyUpdatesAll(rows, id, updates) ==
  [i \in DOMAIN rows |-> Spread(rows[i], updates)]

\* setLocalSales(prev => prev.map(sale =>
\*   sale.id === id ? {...sale, ...updates} : sale))
ApplyUpdates(rows, id, updates) ==
  [i \in DOMAIN rows |-> IF i = id THEN Spread(rows[i], updates) ELSE rows[i]]

\* Variant: the entry is left in the buffer.
RemoveEntryKept(rows, id) == rows

\* setEditRows(prev => { const copy = {...prev}; delete copy[id]; return copy })
RemoveEntry(rows, id) == [i \in (DOMAIN rows) \ {id} |-> rows[i]]

\* useSales.fetchSalesData resolves; the effect copies sales to localSales.
FetchSalesOk ==
  /\ loading
  /\ sales' = server
  /\ localSales' = server
  /\ confirmed' = server
  /\ loading' = FALSE
  /\ last' = LastOp("FetchSalesOk", NoId)
  /\ UNCHANGED <<dashVars, boundaryVars, serviceVars>>
  /\ UNCHANGED <<server, error, editRows, savingId, saveError, puts, nSaves,
                 nEdits, patchSince, rowFailed>>

\* useSales.fetchSalesData rejects.
FetchSalesFail ==
  /\ loading
  /\ error' = "Failed to load sales data. Please try again later."
  /\ loading' = FALSE
  /\ last' = LastOp("FetchSalesFail", NoId)
  /\ UNCHANGED <<dashVars, boundaryVars, serviceVars>>
  /\ UNCHANGED <<server, sales, editRows, savingId, saveError, localSales,
                 puts, nSaves, nEdits, confirmed, patchSince, rowFailed>>

HandleChange(id, f, v) ==
  /\ Rendered(id)
  /\ nEdits < MaxEdits
  /\ editRows' = SetEdit(editRows, id, f, v)
  /\ nEdits' = nEdits + 1
  /\ patchSince' = [patchSince EXCEPT ![id] = Spread(@, [g \in {f} |-> v])]
  /\ last' = LastOp("HandleChange", id)
  /\ UNCHANGED <<dashVars, boundaryVars, serviceVars>>
  /\ UNCHANGED <<server, sales, loading, error, savingId, saveError,
                 localSales, puts, nSaves, confirmed, rowFailed>>

\* fetch(`/api/sales/${id}`, {method: 'PUT', body: JSON.stringify(updates)})
PutRequest(id, updates) == [id |-> id, updates |-> updates]

\* handleSave up to its await: the click reaches it only from an enabled button.
HandleSave(id) ==
  /\ Rendered(id)
  /\ ~SaveDisabled(id)
  /\ nSaves < MaxSaves
  /\ savingId' = id
  /\ saveError' = Null
  /\ puts' = puts (+) SetToBag({PutRequest(id, SaveBody(id))})
  /\ nSaves' = nSaves + 1
  /\ rowFailed' = rowFailed \ {id}
  /\ last' = LastOp("HandleSave", id)
  /\ UNCHANGED <<dashVars, boundaryVars, serviceVars>>
  /\ UNCHANGED <<server, sales, loading, error, editRows, localSales, nEdits,
                 confirmed, patchSince>>

\* e.message || 'Failed to update sale'
SaveErrorMessage == "Failed to update sale"

\* The state handleSave's continuation reads and writes, and the backend row.
EditorState ==
  [server |-> server, localSales |-> localSales, editRows |-> editRows,
   savingId |-> savingId, saveError |-> saveError, rowFailed |-> rowFailed]

\* What the backend stores for a PUT: the patch over the row, column by column.
Stored(row, updates) ==
  [f \in Fields |-> ServerNormalize(f, Spread(row, updates)[f])]

\* Variant: the success branch ends with setSaveError(null).
SettleSaveClearingError(st, req, ok) ==
  IF ok
  THEN [st EXCEPT !.server[req.id] = Stored(st.server[req.id], req.updates),
                  !.localSales = ApplyUpdates(st.localSales, req.id, req.updates),
                  !.editRows = RemoveEntry(st.editRows, req.id),
                  !.saveError = Null,
                  !.savingId = NoId]
  ELSE [st EXCEPT !.saveError = SaveErrorMessage,
                  !.rowFailed = st.rowFailed \cup {req.id},
                  !.savingId = NoId]

\* handleSave after its await, on state st: the try block after res.ok (ok),
\* or the catch block (~ok); then finally.
SettleSave(st, req, ok) ==
  IF ok
  THEN [st EXCEPT !.server[req.id] = Stored(st.server[req.id], req.updates),
                  !.localSales = ApplyUpdates(st.localSales, req.id, req.updates),
                  !.editRows = RemoveEntry(st.editRows, req.id),
                  !.savingId = NoId]
  ELSE [st EXCEPT !.saveError = SaveErrorMessage,
                  !.rowFailed = st.rowFailed \cup {req.id},
                  !.savingId = NoId]

\* The backend applies the patch and answers 2xx with the stored row;
\* handleSave continues after the await (res.ok).
SaveSucceeded(req) ==
  \E st \in {SettleSave(EditorState, req, TRUE)} :
  /\ req \in BagToSet(puts)
  /\ server' = st.server
  /\ confirmed' = [confirmed EXCEPT ![req.id] = st.server[req.id]]
  /\ localSales' = st.localSales
  /\ editRows' = st.editRows
  /\ savingId' = st.savingId
  /\ saveError' = st.saveError
  /\ rowFailed' = st.rowFailed
  /\ puts' = puts (-) SetToBag({req})
  /\ patchSince' = [patchSince EXCEPT ![req.id] = EmptyPatch]
  /\ last' = LastOp("SaveSucceeded", req.id)
  /\ UNCHANGED <<dashVars, boundaryVars, serviceVars>>
  /\ UNCHANGED <<sales, loading, error, nSaves, nEdits>>

\* The backend answers non-2xx (throw new Error('Failed to update sale')) or
\* fetch rejects; the catch and finally blocks run.  The text of e.message
\* is not told apart: saveError is the message of the thrown Error.
SaveFailed(req) ==
  \E st \in {SettleSave(EditorState, req, FALSE)} :
  /\ req \in BagToSet(puts)
  /\ server' = st.server
  /\ localSales' = st.localSales
  /\ editRows' = st.editRows
  /\ savingId' = st.savingId
  /\ saveError' = st.saveError
  /\ rowFailed' = st.rowFailed
  /\ puts' = puts (-) SetToBag({req})
  /\ last' = LastOp("SaveFailed", req.id)
  /\ UNCHANGED <<dashVars, boundaryVars, serviceVars>>
  /\ UNCHANGED <<sales, loading, error, nSaves, nEdits, confirmed, patchSince>>

\* -------------------------------------------------------- useDashboardData

\* new Date().getFullYear()
CurrentYear == 2024

Years == {2023, 2024}

\* String(p.category_id) for the category ids of the backend.
StringOf(n) == IF n = 1 THEN "1" ELSE "2"

\* The category filter: '' is no filter.
CategoryFilters == {"", "1"}

\* GET /products
ProductsData == {[id |-> 1, category_id |-> 1], [id |-> 2, category_id |-> 2]}

\* GET /categories
CategoriesData == {[id |-> 1, name |-> "Electronics"], [id |-> 2, name |-> "Groceries"]}

\* The fallback of fetchCategories' catch block.
SampleCategories ==
  {[id |-> 1, name |-> "TVs"], [id |-> 2, name |-> "Refrigerators"],
   [id |-> 3, name |-> "Laptops"], [id |-> 4, name |-> "Microwaves"],
   [id |-> 5, name |-> "Smartphones"]}

\* GET /sales/years
YearsData == <<2023, 2024>>

\* The sales the backend aggregates: one order each.
SaleRows ==
  {[year |-> 2023, month |-> 1, category_id |-> 1, total_price |-> 100, profit |-> 30],
   [year |-> 2024, month |-> 1, category_id |-> 1, total_price |-> 60, profit |-> 18],
   [year |-> 2024, month |-> 1, category_id |-> 2, total_price |-> 40, profit |-> 12],
   [year |-> 2024, month |-> 3, category_id |-> 2, total_price |-> 50, profit |-> 15]}

RECURSIVE SumOf(_, _)
SumOf(rows, field) ==
  IF rows = {} THEN 0
  ELSE LET r == CHOOSE x \in rows : TRUE
       IN r[field] + SumOf(rows \ {r}, field)

\* GET /sales/stats?year=<y>&category_id=<c>
StatsData(y, c) ==
  LET rows == {r \in SaleRows :
                 r.year = y /\ (c = "" \/ StringOf(r.category_id) = c)}
      months == {r.month : r \in rows}
      of(m) == {r \in rows : r.month = m}
  IN [sales |-> [m \in months |->
                   [orders |-> Cardinality(of(m)),
                    total_price |-> SumOf(of(m), "total_price"),
                    profit |-> SumOf(of(m), "profit")]],
      total |-> SumOf(rows, "total_price"),
      orders |-> Cardinality(rows),
      total_profit |-> SumOf(rows, "profit")]

\* Variant: fetchProducts with a catch block that rethrows, as that of
\* fetchSalesStats does.
CallOutcomesProductsRethrown(call) ==
  CASE call = "products" -> {"ok", "rejected"}
    [] call = "categories" -> {"ok", "empty", "fallback"}
    [] call = "stats" -> {"ok", "rejected"}
    [] call = "years" -> {"ok", "fallback"}

\* What each of the four calls of Promise.all can settle with.
\* fetchProducts: the array, or [] from its catch block.
\* fetchCategories: the array, [] on a non-2xx answer, the samples from its catch.
\* fetchSalesStats: the body, or a rejection.
\* fetchSalesYears: the array, or [currentYear].
CallOutcomes(call) ==
  CASE call = "products" -> {"ok", "fallback"}
    [] call = "categories" -> {"ok", "empty", "fallback"}
    [] call = "stats" -> {"ok", "rejected"}
    [] call = "years" -> {"ok", "fallback"}

Calls == {"products", "categories", "stats", "years"}

\* The value a settled call hands to Promise.all, for the invocation's filter.
CallValue(inv, call) ==
  CASE call = "products" ->
         IF inv.calls[call] = "ok" THEN ProductsData ELSE {}
    [] call = "categories" ->
         IF inv.calls[call] = "ok" THEN CategoriesData
         ELSE IF inv.calls[call] = "empty" THEN {} ELSE SampleCategories
    [] call = "stats" -> StatsData(inv.year, inv.categoryId)
    [] call = "years" ->
         IF inv.calls[call] = "ok" THEN YearsData ELSE <<CurrentYear>>

\* categoryId ? productsData.filter(p => String(p.category_id) === categoryId)
\*            : productsData
FilterProducts(productsData, c) ==
  IF c # "" THEN {p \in productsData : StringOf(p.category_id) = c}
  ELSE productsData

\* The state the try block of fetchData sets once Promise.all has resolved.
Snapshot(inv) ==
  [products |-> FilterProducts(CallValue(inv, "products"), inv.categoryId),
   categories |-> CallValue(inv, "categories"),
   salesStats |-> CallValue(inv, "stats"),
   availableYears |-> CallValue(inv, "years")]

\* What the hook returns to the view.
Shown ==
  [products |-> products, categories |-> categories, salesStats |-> salesStats,
   availableYears |-> availableYears]

EmptyStats == [sales |-> <<>>, total |-> 0, orders |-> 0, total_profit |-> 0]

\* fetchData up to its await: the closure holds the year and categoryId of
\* the render that created it.
Invocation(g, y, c) ==
  [gen |-> g, year |-> y, categoryId |-> c,
   calls |-> [k \in Calls |-> "pending"]]

StartLoad(y, c) ==
  /\ nLoads < MaxLoads
  /\ dashLoading' = TRUE
  /\ dashError' = Null
  /\ loads' = loads \cup {Invocation(nLoads + 1, y, c)}
  /\ nLoads' = nLoads + 1
  /\ outcome' = [outcome EXCEPT ![nLoads + 1] = "pending"]

\* The filter changes: the effect on [year, categoryId] calls fetchData.
ChangeFilter(y, c) ==
  /\ <<y, c>> # <<year, categoryId>>
  /\ StartLoad(y, c)
  /\ year' = y
  /\ categoryId' = c
  /\ UNCHANGED <<products, categories, salesStats, availableYears, applied,
                 shownFor>>
  /\ UNCHANGED <<editorVars, boundaryVars, serviceVars>>

\* refetch: fetchData of the current render.
Refetch ==
  /\ StartLoad(year, categoryId)
  /\ UNCHANGED <<year, categoryId, products, categories, salesStats,
                 availableYears, applied,
                 shownFor>>
  /\ UNCHANGED <<editorVars, boundaryVars, serviceVars>>

\* One of the four calls of an invocation settles.  Promise.all rejects with
\* the first rejection and resolves when all four have resolved; the rest of
\* fetchData runs in the same turn.
SettleCall(inv, call, result) ==
  LET inv2 == [inv EXCEPT !.calls[call] = result]
      rejected == result = "rejected"
      resolved == \A k \in Calls : inv2.calls[k] # "pending"
  IN
  /\ inv \in loads
  /\ inv.calls[call] = "pending"
  /\ result \in CallOutcomes(call)
  /\ IF rejected THEN
       \* catch, finally
       /\ dashError' = "Failed to load dashboard data. Please try again later."
       /\ dashLoading' = FALSE
       /\ loads' = loads \ {inv}
       /\ outcome' = [outcome EXCEPT ![inv.gen] = "error"]
       /\ UNCHANGED <<products, categories, salesStats, availableYears, applied,
                 shownFor>>
     ELSE IF resolved THEN
       \* try, finally
       /\ products' = Snapshot(inv2).products
       /\ categories' = Snapshot(inv2).categories
       /\ salesStats' = Snapshot(inv2).salesStats
       /\ availableYears' = Snapshot(inv2).availableYears
       /\ dashLoading' = FALSE
       /\ loads' = loads \ {inv}
       /\ outcome' = [outcome EXCEPT ![inv.gen] = "ok"]
       /\ applied' = [applied EXCEPT ![inv.gen] = Snapshot(inv2)]
       /\ shownFor' = <<inv.year, inv.categoryId>>
       /\ UNCHANGED dashError
     ELSE
       /\ loads' = (loads \ {inv}) \cup {inv2}
       /\ UNCHANGED <<products, categories, salesStats, availableYears,
                      dashLoading, dashError, outcome, applied,
                      shownFor>>
  /\ UNCHANGED <<year, categoryId, nLoads>>
  /\ UNCHANGED <<editorVars, boundaryVars, serviceVars>>

DashNext ==
  \/ \E y \in Years, c \in CategoryFilters : ChangeFilter(y, c)
  \/ Refetch
  \/ \E inv \in loads, call \in Calls :
       \E result \in CallOutcomes(call) : SettleCall(inv, call, result)

\* ------------------------------------------------------------ ErrorBoundary

Boundaries == 1..NumBoundaries

\* static defaultProps = { maxRetries: 3 }; no caller passes the prop.
maxRetries == 3

\* new Error(message), and its message property.
ErrorOf(message) == <<"Error", message>>

MessageOf(e) == e[2]

\* What a child can throw while rendering: an Error, or a string.
Thrown ==
  {[isError |-> TRUE, value |-> ErrorOf(<<"render failed">>)],
   [isError |-> FALSE, value |-> <<"rejected">>]}

\* React's ErrorInfo for the throwing child.
ComponentStack == "componentStack"

\* this.state as the constructor sets it.
ConstructedState ==
  [hasError |-> FALSE, error |-> Null, errorInfo |-> Null, retryCount |-> 0]

NoHistory ==
  [granted |-> 0, requests |-> 0, mounts |-> 1, lastRetry |-> "none"]

\* getDerivedStateFromError: the partial state merged into this.state;
\* a thrown value that is not an Error becomes new Error(String(value)).
GetDerivedStateFromError(st, thrown) ==
  [st EXCEPT !.hasError = TRUE,
             !.error = IF thrown.isError THEN thrown.value
                       ELSE ErrorOf(thrown.value)]

\* componentDidCatch: logError, onError, then setState({ errorInfo }).
ComponentDidCatch(st, errorInfo) == [st EXCEPT !.errorInfo = errorInfo]

\* The Error handleRetry builds when it refuses.
MaximumReached(n) == ErrorOf(<<"Maximum retry attempts (", n, ") reached">>)

\* handleRetry's refusal: setState({ error, retryCount: 0 }).
RefusedState(st) ==
  [st EXCEPT !.error = MaximumReached(maxRetries), !.retryCount = 0]

\* Variant: the updater of a granted retry leaves errorInfo in place.
RetryStateKeepingInfo(st) ==
  [st EXCEPT !.hasError = FALSE, !.error = Null,
             !.retryCount = st.retryCount + 1]

\* handleRetry's functional updater for a granted retry.
RetryState(st) ==
  [hasError |-> FALSE, error |-> Null, errorInfo |-> Null,
   retryCount |-> st.retryCount + 1]

\* render(): the children, or the error view (fallbackUI is not passed).
Render(b) == IF state[b].hasError THEN "error view" ELSE "children"

\* render(): the "Try Again (n attempts remaining)" button is in the view.
RetryOffered(b) == state[b].hasError /\ state[b].retryCount < maxRetries

\* render(): this.state.error?.message in the error view.
MessageShown(b) ==
  IF state[b].hasError /\ state[b].error # Null
  THEN MessageOf(state[b].error) ELSE <<>>

\* A child of instance b throws while rendering: React calls
\* getDerivedStateFromError, then componentDidCatch, and renders the error
\* view.
ChildThrows(b, thrown) ==
  /\ ~state[b].hasError
  /\ state' = [state EXCEPT ![b] =
                ComponentDidCatch(GetDerivedStateFromError(state[b], thrown),
                                  ComponentStack)]
  /\ UNCHANGED <<nRequests, nRemounts, hist>>
  /\ UNCHANGED <<editorVars, dashVars, serviceVars>>

\* handleRetry is called on instance b while it shows an error: by the Try
\* Again button when render() offers it, or directly on the instance (it is
\* a public property) when it does not.
HandleRetry(b) ==
  /\ state[b].hasError
  /\ nRequests < MaxRetryRequests
  /\ nRequests' = nRequests + 1
  /\ IF state[b].retryCount >= maxRetries
     THEN /\ state' = [state EXCEPT ![b] = RefusedState(state[b])]
          /\ hist' = [hist EXCEPT ![b].requests = @ + 1,
                                  ![b].lastRetry = "refused"]
     ELSE \* hasError is false: render() returns the children, which React
          \* mounts anew (they were unmounted for the error view).
          /\ state' = [state EXCEPT ![b] = RetryState(state[b])]
          /\ hist' = [hist EXCEPT ![b].requests = @ + 1,
                                  ![b].granted = @ + 1,
                                  ![b].mounts = @ + 1,
                                  ![b].lastRetry = "granted"]
  /\ UNCHANGED nRemounts
  /\ UNCHANGED <<editorVars, dashVars, serviceVars>>

\* The children mounted by a granted retry render without throwing:
\* render() returns this.props.children and no lifecycle method runs.
ChildrenRendered(b) ==
  /\ ~state[b].hasError
  /\ hist[b].lastRetry = "granted"
  /\ hist' = [hist EXCEPT ![b].lastRetry = "recovered"]
  /\ UNCHANGED <<state, nRequests, nRemounts>>
  /\ UNCHANGED <<editorVars, dashVars, serviceVars>>

\* The parent remounts instance b (a new key): the constructor runs again.
Remount(b) ==
  /\ nRemounts < MaxRemounts
  /\ nRemounts' = nRemounts + 1
  /\ state' = [state EXCEPT ![b] = ConstructedState]
  /\ hist' = [hist EXCEPT ![b] = NoHistory]
  /\ UNCHANGED nRequests
  /\ UNCHANGED <<editorVars, dashVars, serviceVars>>

BoundaryNext ==
  \/ \E b \in Boundaries, thrown \in Thrown : ChildThrows(b, thrown)
  \/ \E b \in Boundaries : HandleRetry(b)
  \/ \E b \in Boundaries : ChildrenRendered(b)
  \/ \E b \in Boundaries : Remount(b)

\* ------------------------------------------------- SalesStats aggregation

\* const months = ['Jan', ..., 'Dec']
Months == 1..12

\* (idx + 1).toString()
MonthKey(m) ==
  <<"1", "2", "3", "4", "5", "6", "7", "8", "9", "10", "11", "12">>[m]

\* The months a stats response of the backend can carry, in the order in
\* which the bound admits them.
RawMonthOrder == <<1, 3, 12, 6>>

RawMonths == {RawMonthOrder[i] : i \in 1..MaxRawMonths}

\* Per-month entries of a response; the backend may leave profit out.
RawEntries ==
  {[orders |-> 2, total_price |-> 100, profit |-> 30],
   [orders |-> 1, total_price |-> 50, profit |-> 15],
   [orders |-> 1, total_price |-> 100, profit |-> 40],
   [orders |-> 1, total_price |-> 50]}

\* obj.f || 0, and obj?.f ?? 0, for a numeric field (0 is the only falsy
\* number the backend sends).
OrZero(obj, f) == IF f \in DOMAIN obj THEN obj[f] ELSE 0

RECURSIVE SumOver(_, _, _)
SumOver(perMonth, keys, f) ==
  IF keys = {} THEN 0
  ELSE LET k == CHOOSE x \in keys : TRUE
       IN OrZero(perMonth[k], f) + SumOver(perMonth, keys \ {k}, f)

\* The sum of a field over the per-month entries of a mapping.
SumField(perMonth, f) == SumOver(perMonth, DOMAIN perMonth, f)

RawSalesMaps ==
  UNION {[K -> RawEntries] : K \in SUBSET {MonthKey(m) : m \in RawMonths}}

\* The roll-ups the backend computes for a per-month mapping.
RollUps(perMonth) ==
  [total |-> SumField(perMonth, "total_price"),
   orders |-> SumField(perMonth, "orders"),
   total_profit |-> SumField(perMonth, "profit")]

\* Bodies of GET /sales/stats: { sales, total, orders, total_profit }, each
\* property present or not (the client guards every one with || ).
RawResponses ==
  UNION {{[f \in D |-> IF f = "sales" THEN m ELSE RollUps(m)[f]] :
            m \in RawSalesMaps} :
         D \in SUBSET {"sales", "total", "orders", "total_profit"}}

\* setSalesStats({ sales: data.sales || {}, total: data.total || 0,
\*                 orders: data.orders || 0,
\*                 total_profit: data.total_profit || 0 })
FormatStats(raw) ==
  [sales |-> IF "sales" \in DOMAIN raw THEN raw.sales ELSE <<>>,
   total |-> OrZero(raw, "total"),
   orders |-> OrZero(raw, "orders"),
   total_profit |-> OrZero(raw, "total_profit")]

\* months.map((_, idx) => stats.sales[(idx + 1).toString()]?.f ?? 0)
Series(stats, f) ==
  [m \in Months |->
     IF MonthKey(m) \in DOMAIN stats.sales
     THEN OrZero(stats.sales[MonthKey(m)], f) ELSE 0]

\* pages/Dashboard.tsx: the three chart series.
salesQuantity == Series(formattedStats, "orders")

salesTotal == Series(formattedStats, "total_price")

salesProfit == Series(formattedStats, "profit")

\* components/Dashboard.tsx: monthly sales, and profit as 0.3 of them.
monthlySales == Series(formattedStats, "total_price")

\* amount * 0.3, on amounts that are multiples of 10
ProfitEstimate(amount) == (amount * 3) \div 10

monthlyProfit == [m \in Months |-> ProfitEstimate(monthlySales[m])]

\* The stats call resolves with body raw and the SalesStats is derived.
ReceiveStats(raw) ==
  /\ salesStatsData' = <<raw>>
  /\ formattedStats' = FormatStats(raw)
  /\ UNCHANGED <<editorVars, dashVars, boundaryVars, gatewayVars>>

AggNext == \E raw \in RawResponses : ReceiveStats(raw)

\* --------------------------------------------------------------- apiService

\* const API_TIMEOUT = 8000
API_TIMEOUT == 8000

\* The time between two observations of the calls in flight.
TickMs == API_TIMEOUT \div 2

\* The exported functions the views call; each awaits fetch(url) directly.
\* (fetchWithTimeout, the only user of API_TIMEOUT, is module-private and is
\* called by none of them.)
GatewayFunctions ==
  {"fetchProducts", "fetchCategories", "fetchSalesStats", "fetchSalesYears",
   "fetchWithError"}

\* A JSON value is <<shape, items>>: an array of items, an object
\* { data: items }, an object without data, or null.
ArrayOf(items) == <<"array", items>>

\* The items the backend holds for the endpoint of fn: years, or row ids.
ItemsOf(fn) == IF fn = "fetchSalesYears" THEN YearsData ELSE <<1, 2>>

\* Bodies of a response: the JSON values above, or text that is not JSON.
Bodies(fn) ==
  {<<shape, items>> : shape \in {"array", "envelope"},
                      items \in {<<>>, ItemsOf(fn)}}
    \cup {<<"object", <<>>>>, <<"null", <<>>>>, <<"invalid", <<>>>>}

\* What fetch() settles with: a Response (ok or not) with a body, or a
\* rejection when the connection fails.
Responses(fn) ==
  {<<"response", TRUE, b>> : b \in Bodies(fn)}
    \cup {<<"response", FALSE, <<"object", <<>>>>>>, <<"failed">>}

Connected(r) == r[1] = "response"

\* response.ok
Ok(r) == Connected(r) /\ r[2]

\* await response.json() resolves.
Parsed(r) == Ok(r) /\ r[3][1] # "invalid"

Data(r) == r[3]

Resolved(value) == <<"resolved", value>>

Rejected(message) == <<"rejected", message>>

\* The message of the Error that reaches the catch block.
ErrorMessage(r) ==
  IF ~Connected(r) THEN "Failed to fetch"
  ELSE IF ~Ok(r) THEN "HTTP error! status"
  ELSE "Unexpected token"

\* data.data || []
DataOrEmpty(data) ==
  IF data[1] = "envelope" THEN ArrayOf(data[2]) ELSE ArrayOf(<<>>)

\* fetchProducts: return data || []; catch: return [].
FetchProducts(r) ==
  IF Parsed(r) /\ Data(r)[1] # "null" THEN Resolved(Data(r))
  ELSE Resolved(ArrayOf(<<>>))

\* Variant: the body is returned as parsed.
FetchCategoriesUnwrapped(r) ==
  IF ~Connected(r) THEN Resolved(ArrayOf(<<1, 2, 3, 4, 5>>))
  ELSE IF ~Ok(r) THEN Resolved(ArrayOf(<<>>))
  ELSE IF ~Parsed(r) \/ Data(r)[1] = "null"
    THEN Resolved(ArrayOf(<<1, 2, 3, 4, 5>>))
  ELSE Resolved(Data(r))

\* fetchCategories: [] on a non-2xx answer; the array, or data.data || [];
\* the five sample categories from the catch block (connection failure,
\* body that is not JSON, or data.data on null).
FetchCategories(r) ==
  IF ~Connected(r) THEN Resolved(ArrayOf(<<1, 2, 3, 4, 5>>))
  ELSE IF ~Ok(r) THEN Resolved(ArrayOf(<<>>))
  ELSE IF ~Parsed(r) \/ Data(r)[1] = "null"
    THEN Resolved(ArrayOf(<<1, 2, 3, 4, 5>>))
  ELSE IF Data(r)[1] = "array" THEN Resolved(Data(r))
  ELSE Resolved(DataOrEmpty(Data(r)))

\* fetchSalesStats: return data; catch: throw error.
FetchSalesStats(r) ==
  IF Parsed(r) THEN Resolved(Data(r)) ELSE Rejected(ErrorMessage(r))

\* Variant: any array body is returned, empty or not.
FetchSalesYearsAnyArray(r) ==
  IF Parsed(r) /\ Data(r)[1] = "array" THEN Resolved(Data(r))
  ELSE Resolved(ArrayOf(<<CurrentYear>>))

\* fetchSalesYears: the array when it is one and is not empty, else
\* [new Date().getFullYear()], also on a non-2xx answer and in the catch.
FetchSalesYears(r) ==
  IF Parsed(r) /\ Data(r)[1] = "array" /\ Len(Data(r)[2]) > 0
  THEN Resolved(Data(r))
  ELSE Resolved(ArrayOf(<<CurrentYear>>))

\* fetchWithError: { data, loading: false }, or { error, loading: false }.
FetchWithError(r) ==
  IF Parsed(r) THEN Resolved(<<"tagged", "data", Data(r)>>)
  ELSE Resolved(<<"tagged", "error", ErrorMessage(r)>>)

\* What the promise of a call of fn settles with when fetch settles with r.
ResultOf(fn, r) ==
  CASE fn = "fetchProducts" -> FetchProducts(r)
    [] fn = "fetchCategories" -> FetchCategories(r)
    [] fn = "fetchSalesStats" -> FetchSalesStats(r)
    [] fn = "fetchSalesYears" -> FetchSalesYears(r)
    [] fn = "fetchWithError" -> FetchWithError(r)

\* A call suspended at await fetch(...), and a call whose promise settled.
PendingCall(fn) ==
  [fn |-> fn, phase |-> "pending", ticks |-> 0, response |-> <<>>,
   result |-> <<>>]

SettledCall(fn, r) ==
  [fn |-> fn, phase |-> "settled", ticks |-> 0, response |-> r,
   result |-> ResultOf(fn, r)]

\* The time a call has been waiting for fetch.
ElapsedMs(call) == call.ticks * TickMs

\* A view calls fn.
CallGateway(fn) ==
  /\ Len(gateway) < MaxCalls
  /\ gateway' = Append(gateway, PendingCall(fn))
  /\ UNCHANGED <<editorVars, dashVars, boundaryVars, aggVars>>

\* Time passes while calls wait; nothing in apiService is timed.
Tick ==
  /\ \E i \in DOMAIN gateway : gateway[i].phase = "pending"
  /\ \A i \in DOMAIN gateway :
       gateway[i].phase = "pending" => gateway[i].ticks < MaxTicks
  /\ gateway' = [i \in DOMAIN gateway |->
                   IF gateway[i].phase = "pending"
                   THEN [gateway[i] EXCEPT !.ticks = @ + 1]
                   ELSE gateway[i]]
  /\ UNCHANGED <<editorVars, dashVars, boundaryVars, aggVars>>

\* fetch settles with r and the function runs to its return or throw.
FetchSettles(i, r) ==
  /\ i \in DOMAIN gateway
  /\ gateway[i].phase = "pending"
  /\ r \in Responses(gateway[i].fn)
  /\ gateway' = [gateway EXCEPT ![i] = SettledCall(gateway[i].fn, r)]
  /\ UNCHANGED <<editorVars, dashVars, boundaryVars, aggVars>>

GatewayNext ==
  \/ \E fn \in GatewayFunctions : CallGateway(fn)
  \/ Tick
  \/ \E i \in 1..MaxCalls :
       \E r \in UNION {Responses(fn) : fn \in GatewayFunctions} :
         FetchSettles(i, r)

\* SalesEditor has been constructed and useSales is fetching; useDashboardData
\* has mounted and its effect has called fetchData for the first time; the
\* ErrorBoundary instances have been constructed and show their children.
Init ==
  /\ server = [i \in Ids |-> InitialSale(i)]
  /\ sales = NoRows
  /\ loading = TRUE
  /\ error = Null
  /\ editRows = NoRows
  /\ savingId = NoId
  /\ saveError = Null
  /\ localSales = NoRows
  /\ puts = EmptyBag
  /\ nSaves = 0
  /\ nEdits = 0
  /\ confirmed = NoRows
  /\ patchSince = [i \in Ids |-> EmptyPatch]
  /\ rowFailed = {}
  /\ last = LastOp("init", NoId)
  /\ year = CurrentYear
  /\ categoryId = ""
  /\ products = {}
  /\ categories = {}
  /\ salesStats = EmptyStats
  /\ availableYears = <<>>
  /\ dashLoading = TRUE
  /\ dashError = Null
  /\ loads = {Invocation(1, CurrentYear, "")}
  /\ nLoads = 1
  /\ outcome = [g \in 1..MaxLoads |-> IF g = 1 THEN "pending" ELSE "none"]
  /\ applied = [g \in 1..MaxLoads |-> Null]
  /\ shownFor = Null
  /\ state = [b \in Boundaries |-> ConstructedState]
  /\ nRequests = 0
  /\ nRemounts = 0
  /\ hist = [b \in Boundaries |-> NoHistory]
  /\ salesStatsData = <<>>
  /\ formattedStats = EmptyStats
  /\ gateway = <<>>

\* The Retry button of the error view: window.location.reload().
Reload ==
  /\ ~loading
  /\ error # Null
  /\ loading' = TRUE
  /\ error' = Null
  /\ last' = LastOp("Reload", NoId)
  /\ UNCHANGED <<dashVars, boundaryVars, serviceVars>>
  /\ UNCHANGED <<server, sales, editRows, savingId, saveError, localSales,
                 puts, nSaves, nEdits, confirmed, patchSince, rowFailed>>

Next ==
  \/ FetchSalesOk
  \/ FetchSalesFail
  \/ Reload
  \/ \E id \in Ids, f \in Fields : \E v \in Typed(f) : HandleChange(id, f, v)
  \/ \E id \in Ids : HandleSave(id)
  \/ \E req \in BagToSet(puts) : SaveSucceeded(req)
  \/ \E req \in BagToSet(puts) : SaveFailed(req)

Spec == Init /\ [][Next]_vars

DashSpec == Init /\ [][DashNext]_vars

BoundarySpec == Init /\ [][BoundaryNext]_vars

AggSpec == Init /\ [][AggNext]_vars

GatewaySpec == Init /\ [][GatewayNext]_vars

\* The PUT whose response the step delivers.
Answered == CHOOSE req \in BagToSet(puts (-) puts') : TRUE

\* C28: no field edit is lost: when a save of a record succeeds, every
\* field edit the EditBuffer holds for the record was either carried by
\* that PUT or is still in the record's entry, and displayed, afterwards.
C28_NoEditLost ==
  [][(last'.op = "SaveSucceeded" /\ puts' # puts) =>
       \A f \in DOMAIN EditOf(last'.id) :
         \/ /\ f \in DOMAIN Answered.updates
            /\ Answered.updates[f] = EditOf(last'.id)[f]
         \/ /\ last'.id \in DOMAIN editRows'
            /\ f \in DOMAIN editRows'[last'.id]
            /\ editRows'[last'.id][f] = EditOf(last'.id)[f]
            /\ DisplayedIn(editRows', localSales', last'.id, f) =
                 Displayed(last'.id, f)]_vars

\* --------------------------------------------- useDashboardData: properties

\* C1: when the latest load has completed, the products, categories, stats
\* and availableYears held are the ones that load received, whatever
\* superseded loads completed before or after it.
C1_LatestLoadWins ==
  outcome[nLoads] = "ok" => Shown = applied[nLoads]

\* The step in which invocation inv of fetchData leaves its try/catch/finally.
Settles(inv) ==
  /\ inv \in loads
  /\ outcome[inv.gen] = "pending"
  /\ outcome'[inv.gen] # "pending"

\* The state slot that a call of fetchData fills.
Slot(call) ==
  CASE call = "products" -> products
    [] call = "categories" -> categories
    [] call = "stats" -> salesStats
    [] call = "years" -> availableYears

\* What the slot of a call holds once the result of inv's call is stored.
SlotValue(inv, call) ==
  CASE call = "products" -> Snapshot(inv).products
    [] call = "categories" -> Snapshot(inv).categories
    [] call = "stats" -> Snapshot(inv).salesStats
    [] call = "years" -> Snapshot(inv).availableYears

\* C12: when a load settles, every slot whose call succeeded holds that
\* call's result; in particular when the stats call is the only one that
\* failed, products, categories and availableYears hold their responses.
C12_SucceededSlotsPopulated ==
  [][\A inv \in loads :
       Settles(inv) =>
         \A call \in Calls :
           inv.calls[call] = "ok" => Slot(call)' = SlotValue(inv, call)]_vars

\* C13: a load settles only when all four of its calls have settled: at the
\* step that sets loading to false for an invocation, the call settling in
\* that step is the only one that was still pending.
C13_SettlesAfterAllCalls ==
  [][\A inv \in loads :
       Settles(inv) =>
         Cardinality({call \in Calls : inv.calls[call] = "pending"}) = 1]_vars

\* C14: while the most recent invocation of fetchData has not completed,
\* loading is true, whatever superseded invocations complete meanwhile.
C14_LoadingWhileLatestOutstanding ==
  outcome[nLoads] = "pending" => dashLoading

\* C15: once the latest invocation has completed without failure the error
\* is null: a failure of a superseded invocation is not published.
C15_ErrorOfLatestLoad ==
  outcome[nLoads] = "ok" => dashError = Null

\* C16: when a load whose products call failed and whose stats call
\* succeeded settles, the stats are the server's response for that load and
\* there is no view-level error.
C16_StatsShownWithoutProducts ==
  [][\A inv \in loads :
       (Settles(inv) /\ inv.calls["products"] = "fallback"
          /\ outcome'[inv.gen] = "ok")
         => /\ salesStats' = StatsData(inv.year, inv.categoryId)
            /\ dashError' = Null]_vars

\* C17: the products and stats held are never those of a filter other than
\* the current one: after a change of year or category they are discarded,
\* while the new load is in flight and after it settles with an error.
C17_PreviousFilterDiscarded ==
  shownFor # Null => shownFor = <<year, categoryId>>

\* ------------------------------------------------- SalesEditor: properties

\* Number of PUT requests of record id that have not settled.
SavesInFlight(id) ==
  LET S == {r \in BagToSet(puts) : r.id = id}
  IN BagCardinality([r \in S |-> CopiesIn(r, puts)])

\* C2: at most one save per record id is in flight at any time (a second
\* save of the record is rejected while the first has not settled).
C2_OneSavePerRecord == \A id \in Ids : SavesInFlight(id) <= 1

\* C3: whenever a save of record R is in flight, the save control of R is
\* disabled.
C3_SavingRowDisabled ==
  \A id \in Ids : SavesInFlight(id) > 0 => SaveDisabled(id)

\* C4: after a failed save of record R, the EditBuffer entry of R is gone
\* and every displayed field of R is its last confirmed server value.
C4_FailureRollsBack ==
  last.op = "SaveFailed" =>
    /\ last.id \notin DOMAIN editRows
    /\ \A f \in Fields : Displayed(last.id, f) = confirmed[last.id][f]

\* C5: after a successful save of record R, the cached record and every
\* displayed field of R equal the representation the server returned.
C5_SuccessShowsServerEcho ==
  last.op = "SaveSucceeded" =>
    /\ localSales[last.id] = confirmed[last.id]
    /\ \A f \in Fields : Displayed(last.id, f) = confirmed[last.id][f]

\* C6: after a successful save of record R the EditBuffer has no entry for
\* R, and an entry exists only for a record that has a field edit made since
\* its last confirmed save.
C6_EntryOnlyWhileUnsaved ==
  /\ last.op = "SaveSucceeded" => last.id \notin DOMAIN editRows
  /\ \A id \in DOMAIN editRows : patchSince[id] # EmptyPatch

\* A save that carried edits has succeeded.
C6_Witness ==
  /\ last.op = "SaveSucceeded"
  /\ localSales[last.id] # sales[last.id]

\* C7: the error of a failed save of record R stays shown for R: it is not
\* cleared by saves or edits of other records.
C7_ErrorStaysWithRecord == rowFailed # {} => saveError # Null

\* C8: a step of a save of record R (its start, its success, its failure)
\* leaves the EditBuffer entry and the cached row of every other record
\* unchanged.
C8_SaveLeavesOthers ==
  [][\A id \in Ids :
       (last'.op \in {"HandleSave", "SaveSucceeded", "SaveFailed"} /\ last'.id = id)
       => \A o \in Ids \ {id} :
            /\ (o \in DOMAIN editRows') = (o \in DOMAIN editRows)
            /\ o \in DOMAIN editRows => editRows'[o] = editRows[o]
            /\ localSales'[o] = localSales[o]]_vars

\* A save with edits has succeeded while another record has pending edits.
C8_Witness ==
  /\ last.op = "SaveSucceeded"
  /\ localSales[last.id] # sales[last.id]
  /\ \E o \in Ids \ {last.id} : o \in DOMAIN editRows

\* C9: an explicit save of record R issues exactly one PUT for R, whose body
\* is every field edited since R's last confirmed save with its latest value.
C9_SaveSendsFullPatch ==
  [][nSaves' # nSaves =>
       puts' = puts (+) SetToBag({PutRequest(last'.id, patchSince[last'.id])})]_vars

\* A save has just been issued whose body carries two accumulated fields.
C9_Witness ==
  /\ last.op = "HandleSave"
  /\ \E r \in BagToSet(puts) : r.id = last.id /\ DOMAIN r.updates = Fields

C10_EditOverlaysConfirmed ==
  [][nEdits' # nEdits =>
       /\ puts' = puts
       /\ localSales' = localSales
       /\ sales' = sales
       /\ \A f \in Fields :
            DisplayedIn(editRows', localSales', last'.id, f) =
              IF f \in DOMAIN editRows'[last'.id]
              THEN editRows'[last'.id][f]
              ELSE confirmed'[last'.id][f]]_vars

\* ------------------------------------------------ ErrorBoundary: properties

\* The step is a call of handleRetry on instance b.
Requested(b) == hist'[b].requests = hist[b].requests + 1

\* The step constructs instance b again.
Remounted(b) == hist'[b] = NoHistory /\ nRemounts' = nRemounts + 1

\* C18: the wrapper grants at most maxRetries retries: a retry request made
\* when maxRetries retries have been used is refused, that is the error
\* state stays set, the children are not rendered again, and the message
\* shown is "Maximum retry attempts (N) reached".
C18_RequestBeyondBudgetRefused ==
  [][\A b \in Boundaries :
       (Requested(b) /\ hist[b].granted >= maxRetries)
         => /\ state'[b].hasError
            /\ hist'[b].mounts = hist[b].mounts
            /\ hist'[b].granted = hist[b].granted
            /\ MessageShown(b)' = MessageOf(MaximumReached(maxRetries))]_vars

\* C19: once the retries of an instance are used up, no step other than a
\* remount grants it a retry or leaves it offering the retry button.
C19_ExhaustedStaysExhausted ==
  [][\A b \in Boundaries :
       (hist[b].granted >= maxRetries /\ ~Remounted(b))
         => /\ hist'[b].granted = hist[b].granted
            /\ ~RetryOffered(b)']_vars

\* C20: a granted retry sets hasError to false, error and errorInfo to
\* null, adds exactly one to retryCount, and renders the children anew.
C20_GrantedRetryClears ==
  [][\A b \in Boundaries :
       hist'[b].granted = hist[b].granted + 1
         => /\ state'[b].hasError = FALSE
            /\ state'[b].error = Null
            /\ state'[b].errorInfo = Null
            /\ state'[b].retryCount = state[b].retryCount + 1
            /\ Render(b)' = "children"
            /\ hist'[b].mounts = hist[b].mounts + 1]_vars

\* The last retry of the budget has just been granted to an instance whose
\* error view showed an error and its component stack.
C20_Witness ==
  \E b \in Boundaries :
    /\ hist[b].lastRetry = "granted"
    /\ hist[b].granted = maxRetries
    /\ state[b] = [hasError |-> FALSE, error |-> Null, errorInfo |-> Null,
                   retryCount |-> maxRetries]

\* The step is a render of the children of instance b that succeeds after a
\* granted retry.
Recovered(b) ==
  hist[b].lastRetry = "granted" /\ hist'[b].lastRetry = "recovered"

\* C30: a render of the children that succeeds after a granted retry leaves
\* retryCount unchanged, and retryCount is the number of retries granted to
\* the instance since it was constructed, whether or not the children
\* rendered between two failures.
C30_BudgetIsLifetimeTotal ==
  [][\A b \in Boundaries :
       /\ Recovered(b) => state'[b].retryCount = state[b].retryCount
       /\ state'[b].retryCount = hist'[b].granted]_vars

\* ---------------------------------------------------- SalesStats: properties

\* C21: after every derivation of SalesStats from a stats response the
\* roll-ups are the sums of the per-month entries: total of total_price,
\* orders of orders, total_profit of profit.
C21_RollUpsAreSums ==
  /\ formattedStats.total = SumField(formattedStats.sales, "total_price")
  /\ formattedStats.orders = SumField(formattedStats.sales, "orders")
  /\ formattedStats.total_profit = SumField(formattedStats.sales, "profit")

\* The zero entry of a month without data.
ZeroEntry == [orders |-> 0, total_price |-> 0, profit |-> 0]

\* C22: the derived per-month mapping has an entry for each of the twelve
\* months, the zero entry for a month absent from the response, and the
\* chart series have a number for every month.
C22_AbsentMonthsZeroed ==
  salesStatsData # <<>> =>
    \A m \in Months :
      /\ MonthKey(m) \in DOMAIN formattedStats.sales
      /\ (MonthKey(m) \notin DOMAIN FormatStats(salesStatsData[1]).sales
            => formattedStats.sales[MonthKey(m)] = ZeroEntry)
      /\ salesQuantity[m] \in Nat /\ salesTotal[m] \in Nat
      /\ salesProfit[m] \in Nat

\* The profit of month m that the claim calls for: the backend's when it
\* supplied one, else 30% of the month's total_price.
ProfitDue(m) ==
  LET perMonth == formattedStats.sales
      k == MonthKey(m)
  IN IF k \in DOMAIN perMonth /\ "profit" \in DOMAIN perMonth[k]
     THEN perMonth[k].profit
     ELSE ProfitEstimate(IF k \in DOMAIN perMonth
                         THEN OrZero(perMonth[k], "total_price") ELSE 0)

\* C23: in both dashboard views the profit of every month is the backend's
\* profit when it supplied one, and 30% of total_price only when it did not.
C23_ProfitServerElseEstimate ==
  \A m \in Months :
    /\ salesProfit[m] = ProfitDue(m)
    /\ monthlyProfit[m] = ProfitDue(m)

\* ---------------------------------------------------- apiService: properties

\* C24: every call is bounded by the timeout: no call is still pending
\* once more than API_TIMEOUT milliseconds have passed since it was made.
C24_CallsBoundedByTimeout ==
  \A i \in DOMAIN gateway :
    gateway[i].phase = "pending" => ElapsedMs(gateway[i]) <= API_TIMEOUT

\* The fetch of a call failed: no connection, or a non-2xx answer.
FetchFailed(call) == ~Ok(call.response)

\* C25: no call rejects, and a call whose fetch failed resolves with a
\* tagged error result.
C25_NeverRejects ==
  \A i \in DOMAIN gateway :
    gateway[i].phase = "settled" =>
      /\ gateway[i].result[1] = "resolved"
      /\ FetchFailed(gateway[i]) =>
           /\ gateway[i].result[2][1] = "tagged"
           /\ gateway[i].result[2][2] = "error"

\* C26: fetchSalesYears never rejects and resolves with a non-empty list:
\* the body when the answer is 2xx with a non-empty array, [currentYear]
\* in every other case.
C26_YearsNeverEmpty ==
  \A i \in DOMAIN gateway :
    (gateway[i].phase = "settled" /\ gateway[i].fn = "fetchSalesYears") =>
      LET r == gateway[i].response
          serverList == /\ Ok(r)
                        /\ r[3][1] = "array"
                        /\ r[3][2] # <<>>
      IN /\ gateway[i].result[1] = "resolved"
         /\ gateway[i].result[2][1] = "array"
         /\ Len(gateway[i].result[2][2]) > 0
         /\ gateway[i].result[2][2] =
              IF serverList THEN r[3][2] ELSE <<CurrentYear>>

\* fetchSalesYears has settled once on a 2xx answer with an empty array and
\* once on a failed connection.
C26_Witness ==
  /\ \E i \in DOMAIN gateway :
       /\ gateway[i].fn = "fetchSalesYears"
       /\ gateway[i].phase = "settled"
       /\ gateway[i].response = <<"response", TRUE, <<"array", <<>>>>>>
  /\ \E i \in DOMAIN gateway :
       /\ gateway[i].fn = "fetchSalesYears"
       /\ gateway[i].phase = "settled"
       /\ gateway[i].response = <<"failed">>

\* C27: on a 2xx answer fetchCategories resolves with the list A both when
\* the body is the array A and when it is { data: A }.
C27_EnvelopeAsBareArray ==
  \A i \in DOMAIN gateway :
    (/\ gateway[i].phase = "settled"
     /\ gateway[i].fn = "fetchCategories"
     /\ Ok(gateway[i].response)
     /\ gateway[i].response[3][1] \in {"array", "envelope"})
      => gateway[i].result = Resolved(ArrayOf(gateway[i].response[3][2]))

\* fetchCategories has settled on the same list sent bare and enveloped.
C27_Witness ==
  \E i, j \in DOMAIN gateway :
    /\ gateway[i].fn = "fetchCategories"
    /\ gateway[j].fn = "fetchCategories"
    /\ gateway[i].phase = "settled"
    /\ gateway[j].phase = "settled"
    /\ gateway[i].response = <<"response", TRUE, <<"array", <<1, 2>>>>>>
    /\ gateway[j].response = <<"response", TRUE, <<"envelope", <<1, 2>>>>>>
    /\ gateway[i].result = gateway[j].result

\* ------------------------------------ useDashboardData over apiService

\* The apiService function behind each call of Promise.all.
FetchOf(call) ==
  CASE call = "products" -> "fetchProducts"
    [] call = "categories" -> "fetchCategories"
    [] call = "stats" -> "fetchSalesStats"
    [] call = "years" -> "fetchSalesYears"

\* The function returns a promise that rejects for some response.
CanReject(fn) ==
  \E r \in Responses(fn) : ResultOf(fn, r)[1] = "rejected"

\* The step runs the catch block of fetchData: an invocation ends as failed,
\* or the error becomes a message it did not hold.
ErrorSet ==
  \/ dashError' # Null /\ dashError' # dashError
  \/ \E inv \in loads : Settles(inv) /\ outcome'[inv.gen] = "error"

====
